---- MODULE Spec2Model ----
(***************************************************************************)
(* Model of samples/material_sandbox.cpp: the per-frame callback gui(),    *)
(* the material variant selection and parameter binding of                 *)
(* updateInstances(), and the light membership bookkeeping that setup()    *)
(* and gui() keep in SandboxParameters.                                    *)
(*                                                                         *)
(* Floating point quantities are fixed point integers in thousandths.      *)
(***************************************************************************)
EXTENDS Integers, Sequences, FiniteSets, TLC

\* Number of gui() frames explored after setup().
MaxFrames == 3

----------------------------------------------------------------------------
\* Enumerations of material_sandbox.h (the header is not part of the sources;
\* the model indices follow the order of the "Model" and "Blending" combos).

MATERIAL_MODEL_UNLIT == 0
MATERIAL_MODEL_LIT == 1
MATERIAL_MODEL_SUBSURFACE == 2
MATERIAL_MODEL_CLOTH == 3
MATERIAL_MODEL_SPECGLOSS == 4

MATERIAL_UNLIT == 0
MATERIAL_LIT == 1
MATERIAL_SUBSURFACE == 2
MATERIAL_CLOTH == 3
MATERIAL_SPECGLOSS == 4
MATERIAL_TRANSPARENT == 5
MATERIAL_FADE == 6
MATERIAL_THIN_REFRACTION == 7
MATERIAL_THIN_SS_REFRACTION == 8
MATERIAL_SOLID_REFRACTION == 9
MATERIAL_SOLID_SS_REFRACTION == 10
MATERIAL_COUNT == 11

BLENDING_OPAQUE == 0
BLENDING_TRANSPARENT == 1
BLENDING_FADE == 2
BLENDING_THIN_REFRACTION == 3
BLENDING_SOLID_REFRACTION == 4

MaterialModels == MATERIAL_MODEL_UNLIT .. MATERIAL_MODEL_SPECGLOSS
BlendingModes == BLENDING_OPAQUE .. BLENDING_SOLID_REFRACTION
MaterialVariants == 0 .. (MATERIAL_COUNT - 1)

----------------------------------------------------------------------------
\* Values of the user-adjustable fields.  Every slider is sampled at the
\* minimum, the midpoint and the maximum of the range its widget allows.

Levels == {0, 1, 2}

Lerp(lo, hi, level) == lo + ((hi - lo) * level) \div 2

\* The fields the widgets of gui() edit, all at the same level of their range.
StoreValues(level) ==
    [ color                         |-> Lerp(0, 1000, level),
      alpha                         |-> Lerp(0, 1000, level),
      roughness                     |-> Lerp(0, 1000, level),
      glossiness                    |-> Lerp(0, 1000, level),
      specularColor                 |-> Lerp(0, 1000, level),
      metallic                      |-> Lerp(0, 1000, level),
      reflectance                   |-> Lerp(0, 1000, level),
      clearCoat                     |-> Lerp(0, 1000, level),
      clearCoatRoughness            |-> Lerp(0, 1000, level),
      anisotropy                    |-> Lerp(-1000, 1000, level),
      thickness                     |-> Lerp(0, 1000, level),
      subsurfacePower               |-> Lerp(1000, 24000, level),
      subsurfaceColor               |-> Lerp(0, 1000, level),
      sheenColor                    |-> Lerp(0, 1000, level),
      ior                           |-> Lerp(1000, 3000, level),
      transmission                  |-> Lerp(0, 1000, level),
      transmittanceColor            |-> Lerp(0, 1000, level),
      distance                      |-> Lerp(0, 4000, level),
      emissiveColor                 |-> Lerp(0, 1000, level),
      emissiveEV                    |-> Lerp(-24, 24, level),
      emissiveExposureWeight        |-> Lerp(0, 1000, level),
      specularAntiAliasingVariance  |-> Lerp(0, 1000, level),
      specularAntiAliasingThreshold |-> Lerp(0, 1000, level),
      castShadows                   |-> (level # 0),
      screenSpaceContactShadows     |-> (level # 0),
      stepCount                     |-> Lerp(0, 255, level),
      maxShadowDistance             |-> Lerp(0, 10000, level),
      stableShadowMap               |-> (level = 2),
      normalBias                    |-> Lerp(0, 4000, level),
      constantBias                  |-> Lerp(0, 1000, level),
      polygonOffsetSlope            |-> Lerp(0, 10000, level),
      polygonOffsetConstant         |-> Lerp(0, 10000, level) ]

\* SandboxParameters: the selection fields, the light toggles with their
\* "has been added to the scene" flags, and the value fields.
SandboxParameters(model, blending, ssr, level) ==
    [ currentMaterialModel    |-> model,
      currentBlending         |-> blending,
      ssr                     |-> ssr,
      directionalLightEnabled |-> TRUE,
      hasDirectionalLight     |-> TRUE,
      spotLightEnabled        |-> FALSE,
      hasSpotLight            |-> FALSE,
      v                       |-> StoreValues(level) ]

----------------------------------------------------------------------------
\* Conversions of the filament colour and exposure helpers.

\* Color::toLinear: sRGB to linear, at the three sampled levels.
toLinear(c) == CASE c = 0 -> 0
                 [] c = 500 -> 214
                 [] c = 1000 -> 1000
                 [] OTHER -> (c * c) \div 1000

\* Exposure::luminance(ev) = 2^(ev - 3), kept as the exponent.
luminanceExp(ev) == ev - 3

\* Color::absorptionAtDistance(color, distance), kept as its two arguments.
absorptionAtDistance(color, distance) == <<color, distance>>

Write(key, value) == [key |-> key, value |-> value]

When(cond, seq) == IF cond THEN seq ELSE <<>>

----------------------------------------------------------------------------
\* updateInstances(): selection of the material instance.

resolveSsrIgnored(p) ==
    LET model == p.currentMaterialModel
        b == p.currentBlending
    IN  IF model = MATERIAL_MODEL_LIT
        THEN CASE b = BLENDING_TRANSPARENT -> MATERIAL_TRANSPARENT
               [] b = BLENDING_FADE -> MATERIAL_FADE
               [] b = BLENDING_THIN_REFRACTION -> MATERIAL_THIN_REFRACTION
               [] b = BLENDING_SOLID_REFRACTION -> MATERIAL_SOLID_REFRACTION
               [] OTHER -> model
        ELSE model

resolveModelUnchecked(p) ==
    LET b == p.currentBlending
    IN  CASE b = BLENDING_TRANSPARENT -> MATERIAL_TRANSPARENT
          [] b = BLENDING_FADE -> MATERIAL_FADE
          [] b = BLENDING_THIN_REFRACTION ->
                IF p.ssr THEN MATERIAL_THIN_SS_REFRACTION ELSE MATERIAL_THIN_REFRACTION
          [] b = BLENDING_SOLID_REFRACTION ->
                IF p.ssr THEN MATERIAL_SOLID_SS_REFRACTION ELSE MATERIAL_SOLID_REFRACTION
          [] OTHER -> p.currentMaterialModel

resolveSolidSsPastEnd(p) ==
    IF /\ p.currentMaterialModel = MATERIAL_MODEL_LIT
       /\ p.currentBlending = BLENDING_SOLID_REFRACTION
       /\ p.ssr
    THEN MATERIAL_COUNT
    ELSE resolveModelUnchecked([p EXCEPT !.currentBlending =
                                   IF p.currentMaterialModel = MATERIAL_MODEL_LIT
                                   THEN p.currentBlending ELSE BLENDING_OPAQUE])

\* int material = params.currentMaterialModel; followed by the overrides
\* that apply under MATERIAL_MODEL_LIT, in the order the code tests them.
resolveMaterial(p) ==
    LET b  == p.currentBlending
        m0 == p.currentMaterialModel
        m1 == IF b = BLENDING_TRANSPARENT THEN MATERIAL_TRANSPARENT ELSE m0
        m2 == IF b = BLENDING_FADE THEN MATERIAL_FADE ELSE m1
        m3 == IF p.ssr
              THEN IF b = BLENDING_THIN_REFRACTION THEN MATERIAL_THIN_SS_REFRACTION ELSE m2
              ELSE IF b = BLENDING_THIN_REFRACTION THEN MATERIAL_THIN_REFRACTION ELSE m2
        m4 == IF p.ssr
              THEN IF b = BLENDING_SOLID_REFRACTION THEN MATERIAL_SOLID_SS_REFRACTION ELSE m3
              ELSE IF b = BLENDING_SOLID_REFRACTION THEN MATERIAL_SOLID_REFRACTION ELSE m3
    IN  IF m0 = MATERIAL_MODEL_LIT THEN m4 ELSE m0

hasRefraction(p) ==
    \/ p.currentBlending = BLENDING_THIN_REFRACTION
    \/ p.currentBlending = BLENDING_SOLID_REFRACTION

----------------------------------------------------------------------------
\* updateInstances(): the setParameter calls, in program order.

baseColorWritesSkipUnlit(p) ==
    When(p.currentMaterialModel # MATERIAL_MODEL_UNLIT,
         << Write("baseColor", <<toLinear(p.v.color)>>) >>)

baseColorWrites(p) ==
    << Write("baseColor", <<toLinear(p.v.color)>>) >>

emissiveWritesAlways(p) ==
    << Write("emissive", << toLinear(p.v.emissiveColor),
                            luminanceExp(p.v.emissiveEV),
                            p.v.emissiveExposureWeight >>) >>

emissiveWrites(p) ==
    When(p.currentMaterialModel # MATERIAL_MODEL_CLOTH,
         << Write("emissive", << toLinear(p.v.emissiveColor),
                                 luminanceExp(p.v.emissiveEV),
                                 p.v.emissiveExposureWeight >>) >>)

litWritesReflectanceAlways(p) ==
    When(p.currentMaterialModel = MATERIAL_MODEL_LIT,
            << Write("roughness", <<p.v.roughness>>),
               Write("metallic", <<p.v.metallic>>),
               Write("reflectance", <<p.v.reflectance>>),
               Write("clearCoat", <<p.v.clearCoat>>),
               Write("clearCoatRoughness", <<p.v.clearCoatRoughness>>),
               Write("anisotropy", <<p.v.anisotropy>>) >>
         \o When(p.currentBlending # BLENDING_OPAQUE,
                 << Write("alpha", <<p.v.alpha>>) >>)
         \o When(hasRefraction(p),
                 << Write("absorption",
                          absorptionAtDistance(toLinear(p.v.transmittanceColor),
                                               p.v.distance)),
                    Write("ior", <<p.v.ior>>),
                    Write("transmission", <<p.v.transmission>>),
                    Write("thickness", <<p.v.thickness>>) >>))

litWrites(p) ==
    When(p.currentMaterialModel = MATERIAL_MODEL_LIT,
            << Write("roughness", <<p.v.roughness>>),
               Write("metallic", <<p.v.metallic>>) >>
         \o When(~hasRefraction(p),
                 << Write("reflectance", <<p.v.reflectance>>) >>)
         \o << Write("clearCoat", <<p.v.clearCoat>>),
               Write("clearCoatRoughness", <<p.v.clearCoatRoughness>>),
               Write("anisotropy", <<p.v.anisotropy>>) >>
         \o When(p.currentBlending # BLENDING_OPAQUE,
                 << Write("alpha", <<p.v.alpha>>) >>)
         \o When(hasRefraction(p),
                 << Write("absorption",
                          absorptionAtDistance(toLinear(p.v.transmittanceColor),
                                               p.v.distance)),
                    Write("ior", <<p.v.ior>>),
                    Write("transmission", <<p.v.transmission>>),
                    Write("thickness", <<p.v.thickness>>) >>))

specGlossWrites(p) ==
    When(p.currentMaterialModel = MATERIAL_MODEL_SPECGLOSS,
         << Write("glossiness", <<p.v.glossiness>>),
            Write("specularColor", <<p.v.specularColor>>),
            Write("reflectance", <<p.v.reflectance>>),
            Write("clearCoat", <<p.v.clearCoat>>),
            Write("clearCoatRoughness", <<p.v.clearCoatRoughness>>),
            Write("anisotropy", <<p.v.anisotropy>>) >>)

subsurfaceWritesWithAlpha(p) ==
    When(p.currentMaterialModel = MATERIAL_MODEL_SUBSURFACE,
            << Write("roughness", <<p.v.roughness>>),
               Write("metallic", <<p.v.metallic>>),
               Write("reflectance", <<p.v.reflectance>>),
               Write("thickness", <<p.v.thickness>>),
               Write("subsurfacePower", <<p.v.subsurfacePower>>),
               Write("subsurfaceColor", <<toLinear(p.v.subsurfaceColor)>>) >>
         \o When(p.currentBlending # BLENDING_OPAQUE,
                 << Write("alpha", <<p.v.alpha>>) >>))

subsurfaceWrites(p) ==
    When(p.currentMaterialModel = MATERIAL_MODEL_SUBSURFACE,
         << Write("roughness", <<p.v.roughness>>),
            Write("metallic", <<p.v.metallic>>),
            Write("reflectance", <<p.v.reflectance>>),
            Write("thickness", <<p.v.thickness>>),
            Write("subsurfacePower", <<p.v.subsurfacePower>>),
            Write("subsurfaceColor", <<toLinear(p.v.subsurfaceColor)>>) >>)

clothWritesWithMetallic(p) ==
    When(p.currentMaterialModel = MATERIAL_MODEL_CLOTH,
         << Write("roughness", <<p.v.roughness>>),
            Write("metallic", <<p.v.metallic>>),
            Write("sheenColor", <<toLinear(p.v.sheenColor)>>),
            Write("subsurfaceColor", <<toLinear(p.v.subsurfaceColor)>>) >>)

clothWrites(p) ==
    When(p.currentMaterialModel = MATERIAL_MODEL_CLOTH,
         << Write("roughness", <<p.v.roughness>>),
            Write("sheenColor", <<toLinear(p.v.sheenColor)>>),
            Write("subsurfaceColor", <<toLinear(p.v.subsurfaceColor)>>) >>)

antiAliasingWrites(p) ==
    When(p.currentMaterialModel # MATERIAL_MODEL_UNLIT,
         << Write("specularAntiAliasingVariance", <<p.v.specularAntiAliasingVariance>>),
            Write("specularAntiAliasingThreshold", <<p.v.specularAntiAliasingThreshold>>) >>)

updateInstancesAntiAliasingBeforeModel(p) ==
    [ material |-> resolveMaterial(p),
      writes   |-> baseColorWrites(p) \o emissiveWrites(p) \o antiAliasingWrites(p)
                   \o litWrites(p) \o specGlossWrites(p) \o subsurfaceWrites(p)
                   \o clothWrites(p) ]

\* The whole call: the selected instance and the writes made to it.
updateInstances(p) ==
    [ material |-> resolveMaterial(p),
      writes   |-> baseColorWrites(p) \o emissiveWrites(p) \o litWrites(p)
                   \o specGlossWrites(p) \o subsurfaceWrites(p)
                   \o clothWrites(p) \o antiAliasingWrites(p) ]

\* MaterialInstance::setParameter: the parameter table after a series of writes.
RECURSIVE applyWrites(_, _)
applyWrites(table, ws) ==
    IF ws = <<>> THEN table
    ELSE applyWrites([k \in DOMAIN table \cup {Head(ws).key} |->
                         IF k = Head(ws).key THEN Head(ws).value ELSE table[k]],
                     Tail(ws))

----------------------------------------------------------------------------
\* Program state.

VARIABLES
    pc,                 \* "start" before setup(), "run" between frames,
                        \* "binder" when updateInstances() is exercised alone
    frame,              \* number of calls made so far (frames, or binder calls)
    params,             \* g_params
    scene,              \* the light entities g_scene holds
    instances,          \* parameter table of each params.materialInstance[i]
    selected,           \* index of the instance the last updateInstances() returned
    renderableMaterial, \* index of the instance set on the renderables
    shadowOptions,      \* ShadowOptions of the directional light
    writes,             \* setParameter calls of the last updateInstances()
    calls,              \* scene and light manager calls of the last frame
    before,             \* light toggles and flags as the last frame found them
    defect,             \* a scene add/remove was issued in the wrong state
    history             \* per frame: the light toggles read and the scene calls made

vars == << pc, frame, params, scene, instances, selected, renderableMaterial,
           shadowOptions, writes, calls, before, defect, history >>

\* Number of direct updateInstances() calls explored on one store.
MaxCalls == 2

\* Number of gui() frames explored when only the light toggles are operated.
MaxLightFrames == 4

Call(op, target) == [op |-> op, target |-> target]

\* Options the directional light is created with (createInstances() in
\* material_sandbox.h): the LightManager::ShadowOptions defaults.
InitialShadowOptions ==
    [ mapSize                   |-> 1024,
      shadowCascades            |-> 1,
      shadowFar                 |-> 0,
      stable                    |-> FALSE,
      normalBias                |-> 1000,
      constantBias              |-> 1,
      polygonOffsetConstant     |-> 500,
      polygonOffsetSlope        |-> 2000,
      screenSpaceContactShadows |-> FALSE,
      stepCount                 |-> 8,
      maxShadowDistance         |-> 300 ]

\* g_params as constructed.
InitialParams == SandboxParameters(MATERIAL_MODEL_LIT, BLENDING_OPAQUE, FALSE, 1)

Snapshot(p) ==
    [ directionalLightEnabled |-> p.directionalLightEnabled,
      hasDirectionalLight     |-> p.hasDirectionalLight,
      spotLightEnabled        |-> p.spotLightEnabled,
      hasSpotLight            |-> p.hasSpotLight ]

\* State after construction of the globals: default parameters, empty scene.
Init ==
    /\ pc = "start"
    /\ frame = 0
    /\ params = InitialParams
    /\ scene = {}
    /\ instances = [i \in MaterialVariants |-> <<>>]
    /\ selected = -1
    /\ renderableMaterial = MATERIAL_LIT
    /\ shadowOptions = InitialShadowOptions
    /\ writes = <<>>
    /\ calls = <<>>
    /\ before = Snapshot(params)
    /\ defect = FALSE
    /\ history = <<>>

\* setup(): the renderables get materialInstance[MATERIAL_LIT] and the
\* directional light is added to the scene; the spot light is only created.
Setup ==
    /\ pc = "start"
    /\ pc' = "run"
    /\ renderableMaterial' = MATERIAL_LIT
    /\ scene' = scene \cup {"light"}
    /\ UNCHANGED << frame, params, instances, selected, shadowOptions, writes,
                    calls, before, defect, history >>

----------------------------------------------------------------------------
\* gui(): the widgets.  A combo or checkbox that is not drawn this frame
\* leaves its field alone.

Widgets(p, model, blending, ssr, directional, spot) ==
    LET p1 == [p EXCEPT !.currentMaterialModel = model]
        p2 == IF p1.currentMaterialModel = MATERIAL_MODEL_LIT
              THEN [p1 EXCEPT !.currentBlending = blending] ELSE p1
        p3 == IF p2.currentMaterialModel > MATERIAL_MODEL_UNLIT /\ hasRefraction(p2)
              THEN [p2 EXCEPT !.ssr = ssr] ELSE p2
    IN  [p3 EXCEPT !.directionalLightEnabled = directional,
                   !.spotLightEnabled = spot]

\* Scene::addEntity / Scene::remove on the set of entities, noting a call
\* made on an entity that is already in (or already out of) the scene.
sceneAdd(st, e) ==
    [st EXCEPT !.scene = @ \cup {e},
               !.calls = Append(@, Call("addEntity", e)),
               !.defect = @ \/ (e \in st.scene)]

sceneRemove(st, e) ==
    [st EXCEPT !.scene = @ \ {e},
               !.calls = Append(@, Call("remove", e)),
               !.defect = @ \/ (e \notin st.scene)]

reconcileDirectionalKeepFlag(st) ==
    IF st.params.directionalLightEnabled /\ ~st.params.hasDirectionalLight
    THEN [sceneAdd(st, "light") EXCEPT !.params.hasDirectionalLight = TRUE]
    ELSE IF ~st.params.directionalLightEnabled /\ st.params.hasDirectionalLight
         THEN sceneRemove(st, "light")
         ELSE st

reconcileDirectionalNoGuard(st) ==
    IF st.params.directionalLightEnabled
    THEN [sceneAdd(st, "light") EXCEPT !.params.hasDirectionalLight = TRUE]
    ELSE IF st.params.hasDirectionalLight
         THEN [sceneRemove(st, "light") EXCEPT !.params.hasDirectionalLight = FALSE]
         ELSE st

\* if (directionalLightEnabled && !hasDirectionalLight) ... else if ...
reconcileDirectional(st) ==
    IF st.params.directionalLightEnabled /\ ~st.params.hasDirectionalLight
    THEN [sceneAdd(st, "light") EXCEPT !.params.hasDirectionalLight = TRUE]
    ELSE IF ~st.params.directionalLightEnabled /\ st.params.hasDirectionalLight
         THEN [sceneRemove(st, "light") EXCEPT !.params.hasDirectionalLight = FALSE]
         ELSE st

reconcileSpotAddOnly(st) ==
    IF st.params.spotLightEnabled /\ ~st.params.hasSpotLight
    THEN [sceneAdd(st, "spotLight") EXCEPT !.params.hasSpotLight = TRUE]
    ELSE IF ~st.params.spotLightEnabled /\ st.params.hasSpotLight
         THEN [st EXCEPT !.params.hasSpotLight = FALSE]
         ELSE st

\* if (spotLightEnabled && !hasSpotLight) ... else if ...
reconcileSpot(st) ==
    IF st.params.spotLightEnabled /\ ~st.params.hasSpotLight
    THEN [sceneAdd(st, "spotLight") EXCEPT !.params.hasSpotLight = TRUE]
    ELSE IF ~st.params.spotLightEnabled /\ st.params.hasSpotLight
         THEN [sceneRemove(st, "spotLight") EXCEPT !.params.hasSpotLight = FALSE]
         ELSE st

applyShadowOptionsFromDefaults(st) ==
    [st EXCEPT !.shadowOptions =
                   [InitialShadowOptions
                       EXCEPT !.stable = st.params.v.stableShadowMap,
                              !.normalBias = st.params.v.normalBias,
                              !.constantBias = st.params.v.constantBias,
                              !.polygonOffsetConstant = st.params.v.polygonOffsetConstant,
                              !.polygonOffsetSlope = st.params.v.polygonOffsetSlope,
                              !.screenSpaceContactShadows = st.params.v.screenSpaceContactShadows,
                              !.stepCount = st.params.v.stepCount,
                              !.maxShadowDistance = st.params.v.maxShadowDistance],
               !.calls = Append(@, Call("setShadowOptions", "light"))]

\* getShadowOptions, the eight assignments, setShadowOptions.
applyShadowOptions(st) ==
    [st EXCEPT !.shadowOptions =
                   [@ EXCEPT !.stable = st.params.v.stableShadowMap,
                             !.normalBias = st.params.v.normalBias,
                             !.constantBias = st.params.v.constantBias,
                             !.polygonOffsetConstant = st.params.v.polygonOffsetConstant,
                             !.polygonOffsetSlope = st.params.v.polygonOffsetSlope,
                             !.screenSpaceContactShadows = st.params.v.screenSpaceContactShadows,
                             !.stepCount = st.params.v.stepCount,
                             !.maxShadowDistance = st.params.v.maxShadowDistance],
               !.calls = Append(@, Call("setShadowOptions", "light"))]

assignMaterialLit(st, material) ==
    [st EXCEPT !.renderableMaterial = MATERIAL_LIT,
               !.calls = Append(@, Call("setMaterialInstanceAt", "renderables"))]

\* The material instance returned by updateInstances() is set on the renderables.
assignMaterial(st, material) ==
    [st EXCEPT !.renderableMaterial = material,
               !.calls = Append(@, Call("setMaterialInstanceAt", "renderables"))]

GuiShadowOptionsLast(model, blending, ssr, directional, spot) ==
    /\ pc = "run"
    /\ LET p   == Widgets(params, model, blending, ssr, directional, spot)
           u   == updateInstances(p)
           st0 == [ params |-> p, scene |-> scene,
                    calls |-> << Call("widgets", "params"),
                                 Call("updateInstances", "materialInstance") >>,
                    defect |-> defect, shadowOptions |-> shadowOptions,
                    renderableMaterial |-> renderableMaterial ]
           st1 == assignMaterial(st0, u.material)
           st2 == reconcileDirectional(st1)
           st3 == reconcileSpot(st2)
           st4 == applyShadowOptions(st3)
       IN  /\ before' = Snapshot(params)
           /\ instances' = [instances EXCEPT ![u.material] = applyWrites(@, u.writes)]
           /\ writes' = u.writes
           /\ selected' = u.material
           /\ params' = st4.params
           /\ scene' = st4.scene
           /\ calls' = st4.calls
           /\ defect' = st4.defect
           /\ shadowOptions' = st4.shadowOptions
           /\ renderableMaterial' = st4.renderableMaterial
    /\ frame' = frame + 1
    /\ UNCHANGED pc

\* One frame of gui(): widgets, updateInstances(), material assignment,
\* directional light membership, shadow options, spot light membership.
Gui(model, blending, ssr, directional, spot) ==
    /\ pc = "run"
    /\ LET p   == Widgets(params, model, blending, ssr, directional, spot)
           u   == updateInstances(p)
           st0 == [ params |-> p, scene |-> scene,
                    calls |-> << Call("widgets", "params"),
                                 Call("updateInstances", "materialInstance") >>,
                    defect |-> defect, shadowOptions |-> shadowOptions,
                    renderableMaterial |-> renderableMaterial ]
           st1 == assignMaterial(st0, u.material)
           st2 == reconcileDirectional(st1)
           st3 == applyShadowOptions(st2)
           st4 == reconcileSpot(st3)
       IN  /\ before' = Snapshot(params)
           /\ instances' = [instances EXCEPT ![u.material] = applyWrites(@, u.writes)]
           /\ writes' = u.writes
           /\ selected' = u.material
           /\ params' = st4.params
           /\ scene' = st4.scene
           /\ calls' = st4.calls
           /\ defect' = st4.defect
           /\ shadowOptions' = st4.shadowOptions
           /\ renderableMaterial' = st4.renderableMaterial
    /\ frame' = frame + 1
    /\ UNCHANGED pc

\* The values a widget can leave in its field: any value when it is drawn,
\* the current one when it is not.
BlendingChoices(model) ==
    IF model = MATERIAL_MODEL_LIT THEN BlendingModes ELSE {params.currentBlending}

SsrChoices(model, blending) ==
    IF /\ model > MATERIAL_MODEL_UNLIT
       /\ blending \in {BLENDING_THIN_REFRACTION, BLENDING_SOLID_REFRACTION}
    THEN BOOLEAN ELSE {params.ssr}

\* A frame in which the user may operate any of the material and light widgets.
Frame ==
    /\ frame < MaxFrames
    /\ \E model \in MaterialModels :
       \E blending \in BlendingChoices(model) :
       \E ssr \in SsrChoices(model, blending) :
       \E directional \in BOOLEAN, spot \in BOOLEAN :
           Gui(model, blending, ssr, directional, spot)
    /\ UNCHANGED history

Next == Setup \/ Frame

Spec == Init /\ [][Next]_vars

----------------------------------------------------------------------------
\* Frames in which only the two light checkboxes are operated, with a record
\* of what every frame read and did.

SceneCalls(cs) == SelectSeq(cs, LAMBDA c : c.op \in {"addEntity", "remove"})

LightFrame ==
    /\ frame < MaxLightFrames
    /\ \E directional \in BOOLEAN, spot \in BOOLEAN :
           Gui(params.currentMaterialModel, params.currentBlending, params.ssr,
               directional, spot)
    /\ history' = Append(history, [ directionalLightEnabled |-> params'.directionalLightEnabled,
                                    spotLightEnabled |-> params'.spotLightEnabled,
                                    calls |-> SceneCalls(calls') ])

NextLights == Setup \/ LightFrame

SpecLights == Init /\ [][NextLights]_vars

----------------------------------------------------------------------------
\* Frames run on a directional light whose shadow options were given other
\* values than the defaults in the fields gui() does not own, and on a store
\* whose sliders stand at any of the sampled levels.

MapSizes == {1024, 2048}
ShadowCascades == {1, 4}
ShadowFars == {0, 10000}

InitShadow ==
    /\ pc = "run"
    /\ frame = 0
    /\ \E level \in Levels :
           params = SandboxParameters(MATERIAL_MODEL_LIT, BLENDING_OPAQUE, FALSE, level)
    /\ scene = {"light"}
    /\ instances = [i \in MaterialVariants |-> <<>>]
    /\ selected = -1
    /\ renderableMaterial = MATERIAL_LIT
    /\ \E mapSize \in MapSizes, cascades \in ShadowCascades, far \in ShadowFars :
           shadowOptions = [InitialShadowOptions EXCEPT !.mapSize = mapSize,
                                                        !.shadowCascades = cascades,
                                                        !.shadowFar = far]
    /\ writes = <<>>
    /\ calls = <<>>
    /\ before = Snapshot(params)
    /\ defect = FALSE
    /\ history = <<>>

NextShadow == LightFrame

SpecShadow == InitShadow /\ [][NextShadow]_vars

----------------------------------------------------------------------------
\* updateInstances() exercised on its own, on every store content.

InitBinder ==
    /\ pc = "binder"
    /\ frame = 0
    /\ \E model \in MaterialModels, blending \in BlendingModes,
          ssr \in BOOLEAN, level \in Levels :
           params = SandboxParameters(model, blending, ssr, level)
    /\ scene = {"light"}
    /\ instances = [i \in MaterialVariants |-> <<>>]
    /\ selected = -1
    /\ renderableMaterial = MATERIAL_LIT
    /\ shadowOptions = InitialShadowOptions
    /\ writes = <<>>
    /\ calls = <<>>
    /\ before = Snapshot(params)
    /\ defect = FALSE
    /\ history = <<>>

UpdateInstancesCallSkipUnchanged ==
    /\ pc = "binder"
    /\ frame < MaxCalls
    /\ LET u == updateInstances(params)
           changed == applyWrites(instances[u.material], u.writes) # instances[u.material]
       IN  /\ instances' = [instances EXCEPT ![u.material] = applyWrites(@, u.writes)]
           /\ writes' = IF changed THEN u.writes ELSE <<>>
           /\ selected' = u.material
    /\ frame' = frame + 1
    /\ UNCHANGED << pc, params, scene, renderableMaterial, shadowOptions, calls,
                    before, defect, history >>

UpdateInstancesCall ==
    /\ pc = "binder"
    /\ frame < MaxCalls
    /\ LET u == updateInstances(params)
       IN  /\ instances' = [instances EXCEPT ![u.material] = applyWrites(@, u.writes)]
           /\ writes' = u.writes
           /\ selected' = u.material
    /\ frame' = frame + 1
    /\ UNCHANGED << pc, params, scene, renderableMaterial, shadowOptions, calls,
                    before, defect, history >>

NextBinder == UpdateInstancesCall

SpecBinder == InitBinder /\ [][NextBinder]_vars

----------------------------------------------------------------------------
\* Properties of the light membership bookkeeping.

Range(seq) == {seq[i] : i \in DOMAIN seq}

CallsFor(cs, e) ==
    SelectSeq(cs, LAMBDA c : c.target = e /\ c.op \in {"addEntity", "remove"})

\* C1: after setup(), and after any number of frames with any values of the
\* two light checkboxes, addEntity is never issued for a light that is in the
\* scene and remove never for a light that is not, and hasDirectionalLight
\* and hasSpotLight equal the scene membership of their light.
C1_FlagsEqualSceneMembership ==
    pc = "run" =>
        /\ ~defect
        /\ params.hasDirectionalLight <=> ("light" \in scene)
        /\ params.hasSpotLight <=> ("spotLight" \in scene)

\* A frame that removed the directional light and added the spot light.
C1_Witness ==
    /\ pc = "run"
    /\ Call("remove", "light") \in Range(calls)
    /\ Call("addEntity", "spotLight") \in Range(calls)
    /\ scene = {"spotLight"}

\* C4: at the end of every frame each light's flag equals the toggle read in
\* that frame, with at most one scene call for the light in the frame, and
\* none when the flag already had the value of the toggle.
C4_FlagFollowsIntentInOneCall ==
    (pc = "run" /\ frame > 0) =>
        /\ params.hasDirectionalLight = params.directionalLightEnabled
        /\ params.hasSpotLight = params.spotLightEnabled
        /\ Len(CallsFor(calls, "light")) <= 1
        /\ Len(CallsFor(calls, "spotLight")) <= 1
        /\ before.hasDirectionalLight = params.directionalLightEnabled
              => CallsFor(calls, "light") = <<>>
        /\ before.hasSpotLight = params.spotLightEnabled
              => CallsFor(calls, "spotLight") = <<>>

\* A frame that switched both lights, and one that found both as wanted.
C4_Witness ==
    /\ pc = "run"
    /\ frame > 1
    /\ before.hasDirectionalLight /\ ~before.hasSpotLight
    /\ ~params.hasDirectionalLight /\ params.hasSpotLight
    /\ Len(CallsFor(calls, "light")) = 1
    /\ Len(CallsFor(calls, "spotLight")) = 1

\* The toggle a frame found in the store: the one the previous frame read.
PreviousDirectional(i) ==
    IF i = 1 THEN InitialParams.directionalLightEnabled
    ELSE history[i - 1].directionalLightEnabled

PreviousSpot(i) ==
    IF i = 1 THEN InitialParams.spotLightEnabled
    ELSE history[i - 1].spotLightEnabled

ExpectedCalls(previous, current, e) ==
    IF previous = current THEN <<>>
    ELSE IF current THEN << Call("addEntity", e) >> ELSE << Call("remove", e) >>

\* C5: in every frame a light gets a scene call exactly when its toggle
\* differs from the previous frame's (remove on true->false, add on
\* false->true) and none otherwise; toggles true, false, true over three
\* frames give one remove and then one add.
C5_CallsExactlyOnIntentChange ==
    /\ \A i \in 1 .. Len(history) :
          /\ CallsFor(history[i].calls, "light") =
                ExpectedCalls(PreviousDirectional(i),
                              history[i].directionalLightEnabled, "light")
          /\ CallsFor(history[i].calls, "spotLight") =
                ExpectedCalls(PreviousSpot(i), history[i].spotLightEnabled, "spotLight")
    /\ \A i \in 1 .. (Len(history) - 2) :
          ( /\ history[i].directionalLightEnabled
            /\ ~history[i + 1].directionalLightEnabled
            /\ history[i + 2].directionalLightEnabled )
          => /\ CallsFor(history[i + 1].calls \o history[i + 2].calls, "light")
                  = << Call("remove", "light"), Call("addEntity", "light") >>
             /\ PreviousDirectional(i) => CallsFor(history[i].calls, "light") = <<>>

\* Three frames that read the directional toggle as true, false, true.
C5_Witness ==
    /\ Len(history) = 3
    /\ history[1].directionalLightEnabled
    /\ ~history[2].directionalLightEnabled
    /\ history[3].directionalLightEnabled
    /\ history[1].calls = <<>>
    /\ history[2].calls = << Call("remove", "light") >>
    /\ history[3].calls = << Call("addEntity", "light") >>

----------------------------------------------------------------------------
\* Properties of updateInstances().

Keys(ws) == {ws[i].key : i \in DOMAIN ws}

Called == frame > 0

LitTable(blending, ssr) ==
    CASE blending = BLENDING_OPAQUE -> MATERIAL_LIT
      [] blending = BLENDING_TRANSPARENT -> MATERIAL_TRANSPARENT
      [] blending = BLENDING_FADE -> MATERIAL_FADE
      [] blending = BLENDING_THIN_REFRACTION ->
            IF ssr THEN MATERIAL_THIN_SS_REFRACTION ELSE MATERIAL_THIN_REFRACTION
      [] blending = BLENDING_SOLID_REFRACTION ->
            IF ssr THEN MATERIAL_SOLID_SS_REFRACTION ELSE MATERIAL_SOLID_REFRACTION

\* C2: under MATERIAL_MODEL_LIT the selected instance is LIT, TRANSPARENT,
\* FADE for opaque, transparent, fade blending and the (screen space)
\* refraction instance for thin and solid refraction; ssr does not matter for
\* opaque, transparent and fade.
C2_LitVariantTable ==
    (Called /\ params.currentMaterialModel = MATERIAL_MODEL_LIT) =>
        /\ selected = LitTable(params.currentBlending, params.ssr)
        /\ params.currentBlending \in
              {BLENDING_OPAQUE, BLENDING_TRANSPARENT, BLENDING_FADE}
              => \A s \in BOOLEAN : resolveMaterial([params EXCEPT !.ssr = s]) = selected

\* Thin refraction with screen space refraction selected.
C2_Witness ==
    /\ Called
    /\ params.currentMaterialModel = MATERIAL_MODEL_LIT
    /\ params.currentBlending = BLENDING_THIN_REFRACTION
    /\ params.ssr
    /\ selected = MATERIAL_THIN_SS_REFRACTION

VariantOfModel(model) ==
    CASE model = MATERIAL_MODEL_UNLIT -> MATERIAL_UNLIT
      [] model = MATERIAL_MODEL_LIT -> MATERIAL_LIT
      [] model = MATERIAL_MODEL_SUBSURFACE -> MATERIAL_SUBSURFACE
      [] model = MATERIAL_MODEL_CLOTH -> MATERIAL_CLOTH
      [] model = MATERIAL_MODEL_SPECGLOSS -> MATERIAL_SPECGLOSS

\* C3: under any model other than LIT the selected instance is the one of
\* the model, whatever the blending and ssr.
C3_NonLitVariantIsModel ==
    (Called /\ params.currentMaterialModel # MATERIAL_MODEL_LIT) =>
        /\ selected = VariantOfModel(params.currentMaterialModel)
        /\ \A b \in BlendingModes, s \in BOOLEAN :
              resolveMaterial([params EXCEPT !.currentBlending = b, !.ssr = s]) = selected

\* Subsurface with solid refraction blending and ssr left in the store.
C3_Witness ==
    /\ Called
    /\ params.currentMaterialModel = MATERIAL_MODEL_SUBSURFACE
    /\ params.currentBlending = BLENDING_SOLID_REFRACTION
    /\ params.ssr
    /\ selected = MATERIAL_SUBSURFACE

RefractionTrio == {"absorption", "ior", "transmission"}

\* C6: one call never writes both reflectance and any of absorption, ior,
\* transmission.
C6_ReflectanceExcludesRefraction ==
    Called => ~("reflectance" \in Keys(writes) /\ Keys(writes) \cap RefractionTrio # {})

\* Specular glossiness with a refraction blending: reflectance, no trio.
C6_Witness ==
    /\ Called
    /\ params.currentMaterialModel = MATERIAL_MODEL_SPECGLOSS
    /\ hasRefraction(params)
    /\ "reflectance" \in Keys(writes)

\* C7: under MATERIAL_MODEL_LIT roughness, metallic, clearCoat,
\* clearCoatRoughness and anisotropy are always written, reflectance exactly
\* when the blending is not a refraction, alpha exactly when it is not
\* opaque, and absorption, ior, transmission, thickness exactly when it is a
\* refraction.
C7_LitSchema ==
    (Called /\ params.currentMaterialModel = MATERIAL_MODEL_LIT) =>
        /\ {"roughness", "metallic", "clearCoat", "clearCoatRoughness", "anisotropy"}
              \subseteq Keys(writes)
        /\ ("reflectance" \in Keys(writes)) <=> ~hasRefraction(params)
        /\ ("alpha" \in Keys(writes)) <=> (params.currentBlending # BLENDING_OPAQUE)
        /\ \A k \in {"absorption", "ior", "transmission", "thickness"} :
              (k \in Keys(writes)) <=> hasRefraction(params)

\* Lit with solid refraction: the refraction keys and alpha, no reflectance.
C7_Witness ==
    /\ Called
    /\ params.currentMaterialModel = MATERIAL_MODEL_LIT
    /\ params.currentBlending = BLENDING_SOLID_REFRACTION
    /\ {"absorption", "ior", "transmission", "thickness", "alpha"} \subseteq Keys(writes)
    /\ "reflectance" \notin Keys(writes)

\* C8 as stated: baseColor is written for every model except UNLIT and not
\* written under UNLIT.
C8_BaseColorExceptUnlit ==
    Called => (("baseColor" \in Keys(writes)) <=>
                  (params.currentMaterialModel # MATERIAL_MODEL_UNLIT))

\* C8: baseColor is written by every call, under every model, UNLIT
\* included.
C8_BaseColorAlways ==
    Called => "baseColor" \in Keys(writes)

\* An UNLIT call that wrote baseColor.
C8_Witness ==
    /\ Called
    /\ params.currentMaterialModel = MATERIAL_MODEL_UNLIT
    /\ "baseColor" \in Keys(writes)

\* C9: emissive is written under every model except CLOTH (UNLIT included)
\* and not written under CLOTH.
C9_EmissiveExceptCloth ==
    Called => (("emissive" \in Keys(writes)) <=>
                  (params.currentMaterialModel # MATERIAL_MODEL_CLOTH))

\* An UNLIT call that wrote emissive.
C9_Witness ==
    /\ Called
    /\ params.currentMaterialModel = MATERIAL_MODEL_UNLIT
    /\ "emissive" \in Keys(writes)

AntiAliasingKeys == {"specularAntiAliasingVariance", "specularAntiAliasingThreshold"}

\* C10 as stated: under CLOTH the instance is CLOTH and the keys written are
\* exactly baseColor, emissive, roughness, sheenColor, subsurfaceColor and the
\* two anti-aliasing scalars.
C10_ClothSchemaWithEmissive ==
    (Called /\ params.currentMaterialModel = MATERIAL_MODEL_CLOTH) =>
        /\ selected = MATERIAL_CLOTH
        /\ Keys(writes) = {"baseColor", "emissive", "roughness", "sheenColor",
                           "subsurfaceColor"} \cup AntiAliasingKeys

\* C10: under CLOTH the instance is CLOTH and the keys written are exactly
\* baseColor, roughness, sheenColor, subsurfaceColor and the two
\* anti-aliasing scalars, each once; emissive is not among them.
C10_ClothSchema ==
    (Called /\ params.currentMaterialModel = MATERIAL_MODEL_CLOTH) =>
        /\ selected = MATERIAL_CLOTH
        /\ Keys(writes) = {"baseColor", "roughness", "sheenColor", "subsurfaceColor"}
                             \cup AntiAliasingKeys
        /\ Len(writes) = 6

\* A CLOTH call made with a refraction blending and ssr left in the store.
C10_Witness ==
    /\ Called
    /\ params.currentMaterialModel = MATERIAL_MODEL_CLOTH
    /\ hasRefraction(params)
    /\ params.ssr
    /\ "sheenColor" \in Keys(writes)

\* Keys every model shares: the colour, the emissive term and the two
\* anti-aliasing scalars.
CommonKeys == {"baseColor", "emissive"} \cup AntiAliasingKeys

\* C11: under SPECULAR_GLOSSINESS the model's own keys are exactly glossiness,
\* specularColor, reflectance, clearCoat, clearCoatRoughness, anisotropy, and
\* under SUBSURFACE exactly roughness, metallic, reflectance, thickness,
\* subsurfacePower, subsurfaceColor, for every blending and ssr; alpha,
\* absorption, ior and transmission are never written for these two models.
C11_SpecGlossAndSubsurfaceSchema ==
    Called =>
        /\ params.currentMaterialModel = MATERIAL_MODEL_SPECGLOSS =>
              Keys(writes) \ CommonKeys =
                  {"glossiness", "specularColor", "reflectance", "clearCoat",
                   "clearCoatRoughness", "anisotropy"}
        /\ params.currentMaterialModel = MATERIAL_MODEL_SUBSURFACE =>
              Keys(writes) \ CommonKeys =
                  {"roughness", "metallic", "reflectance", "thickness",
                   "subsurfacePower", "subsurfaceColor"}
        /\ params.currentMaterialModel \in
              {MATERIAL_MODEL_SPECGLOSS, MATERIAL_MODEL_SUBSURFACE} =>
              Keys(writes) \cap {"alpha", "absorption", "ior", "transmission"} = {}

\* A SUBSURFACE call made with thin refraction blending left in the store.
C11_Witness ==
    /\ Called
    /\ params.currentMaterialModel = MATERIAL_MODEL_SUBSURFACE
    /\ params.currentBlending = BLENDING_THIN_REFRACTION
    /\ "subsurfacePower" \in Keys(writes)

----------------------------------------------------------------------------
\* Properties of the shadow options update.

OwnedShadowFields ==
    {"stable", "normalBias", "constantBias", "polygonOffsetConstant",
     "polygonOffsetSlope", "screenSpaceContactShadows", "stepCount",
     "maxShadowDistance"}

\* C13: a frame leaves stable, normalBias, constantBias,
\* polygonOffsetConstant, polygonOffsetSlope, screenSpaceContactShadows,
\* stepCount and maxShadowDistance of the directional light's shadow options
\* equal to the store's values, and every other field of the record as the
\* light held it before the frame.
C13_ShadowOptionsReadModifyWrite ==
    [][ frame' = frame + 1 =>
            /\ shadowOptions'.stable = params'.v.stableShadowMap
            /\ shadowOptions'.normalBias = params'.v.normalBias
            /\ shadowOptions'.constantBias = params'.v.constantBias
            /\ shadowOptions'.polygonOffsetConstant = params'.v.polygonOffsetConstant
            /\ shadowOptions'.polygonOffsetSlope = params'.v.polygonOffsetSlope
            /\ shadowOptions'.screenSpaceContactShadows = params'.v.screenSpaceContactShadows
            /\ shadowOptions'.stepCount = params'.v.stepCount
            /\ shadowOptions'.maxShadowDistance = params'.v.maxShadowDistance
            /\ DOMAIN shadowOptions' = DOMAIN shadowOptions
            /\ \A f \in DOMAIN shadowOptions \ OwnedShadowFields :
                  shadowOptions'[f] = shadowOptions[f] ]_vars

\* A frame run on a light created with a 2048 map and four cascades, with the
\* sliders at their maximum.
C13_Witness ==
    /\ frame > 0
    /\ Call("setShadowOptions", "light") \in Range(calls)
    /\ shadowOptions.mapSize = 2048
    /\ shadowOptions.shadowCascades = 4
    /\ shadowOptions.stepCount = 255
    /\ shadowOptions.stable

----------------------------------------------------------------------------
\* Further properties of updateInstances().

\* C14: under every model except UNLIT, and every blending and ssr, the
\* anti-aliasing variance and threshold are written, once each, as the last
\* two writes of the call; under UNLIT they are not written.
C14_AntiAliasingWrittenLast ==
    Called =>
        IF params.currentMaterialModel # MATERIAL_MODEL_UNLIT
        THEN /\ Len(writes) >= 2
             /\ writes[Len(writes) - 1].key = "specularAntiAliasingVariance"
             /\ writes[Len(writes)].key = "specularAntiAliasingThreshold"
             /\ \A i \in 1 .. (Len(writes) - 2) : writes[i].key \notin AntiAliasingKeys
        ELSE Keys(writes) \cap AntiAliasingKeys = {}

\* A lit call with a refraction blending, which has the longest run of writes
\* ahead of the two scalars.
C14_Witness ==
    /\ Called
    /\ params.currentMaterialModel = MATERIAL_MODEL_LIT
    /\ params.currentBlending = BLENDING_THIN_REFRACTION
    /\ Len(writes) = 14
    /\ writes[14].key = "specularAntiAliasingThreshold"

\* C15: for each of the 5 models, 5 blendings and 2 ssr values the call
\* selects one instance, and its index is one of the 11 indices of
\* params.materialInstance.
C15_SelectionIsTotal ==
    /\ Cardinality(MaterialVariants) = 11
    /\ DOMAIN instances = MaterialVariants
    /\ Called => selected \in MaterialVariants

\* The call that selects the last index of the array.
C15_Witness ==
    /\ Called
    /\ params.currentMaterialModel = MATERIAL_MODEL_LIT
    /\ params.currentBlending = BLENDING_SOLID_REFRACTION
    /\ params.ssr
    /\ selected = MATERIAL_COUNT - 1

----------------------------------------------------------------------------
\* Properties of the order of a frame.

IsSceneCall(c) == c.op \in {"addEntity", "remove"}

FrameStarts ==
    /\ Len(calls) >= 4
    /\ calls[1] = Call("widgets", "params")
    /\ calls[2] = Call("updateInstances", "materialInstance")
    /\ calls[3] = Call("setMaterialInstanceAt", "renderables")

\* C16 as stated: a frame runs the widgets, the selection and binding of the
\* material, the membership of both lights and only then the shadow options;
\* no scene add/remove follows setShadowOptions in the frame.
C16_NoSceneCallAfterShadowOptions ==
    (pc = "run" /\ frame > 0) =>
        /\ FrameStarts
        /\ \A i, j \in DOMAIN calls :
              (calls[i].op = "setShadowOptions" /\ IsSceneCall(calls[j])) => j < i

\* C16: a frame runs the widgets, the selection and binding of the material,
\* the membership of the directional light, the shadow options and then the
\* membership of the spot light; no add/remove of the directional light
\* follows setShadowOptions, and an add/remove of the spot light is issued
\* only after it.
C16_ShadowOptionsBetweenTheLights ==
    (pc = "run" /\ frame > 0) =>
        /\ FrameStarts
        /\ \E k \in 4 .. Len(calls) :
              /\ calls[k] = Call("setShadowOptions", "light")
              /\ \A i \in 4 .. (k - 1) : IsSceneCall(calls[i]) /\ calls[i].target = "light"
              /\ \A i \in (k + 1) .. Len(calls) :
                    IsSceneCall(calls[i]) /\ calls[i].target = "spotLight"

\* A frame that added the directional light back and removed the spot light.
C16_Witness ==
    /\ pc = "run"
    /\ frame > 1
    /\ calls = << Call("widgets", "params"),
                  Call("updateInstances", "materialInstance"),
                  Call("setMaterialInstanceAt", "renderables"),
                  Call("addEntity", "light"),
                  Call("setShadowOptions", "light"),
                  Call("remove", "spotLight") >>

\* C17: the writes of a frame land in the instance selected in that frame,
\* the parameter tables of the other ten instances stay as they were, the
\* array keeps its eleven instances, and the instance set on the renderables
\* is the selected one.
C17_WritesGoToSelectedInstanceOnly ==
    [][ frame' = frame + 1 =>
            /\ selected' \in MaterialVariants
            /\ \A i \in MaterialVariants \ {selected'} : instances'[i] = instances[i]
            /\ DOMAIN instances' = DOMAIN instances
            /\ \A k \in DOMAIN instances[selected'] \ Keys(writes') :
                  /\ k \in DOMAIN instances'[selected']
                  /\ instances'[selected'][k] = instances[selected'][k]
            /\ \A i \in DOMAIN writes' :
                  /\ writes'[i].key \in DOMAIN instances'[selected']
                  /\ instances'[selected'][writes'[i].key] = writes'[i].value
            /\ renderableMaterial' = selected' ]_vars

\* A cloth frame that follows a lit frame: both tables are filled and the
\* renderables carry the cloth instance.
C17_Witness ==
    /\ pc = "run"
    /\ frame >= 2
    /\ selected = MATERIAL_CLOTH
    /\ renderableMaterial = MATERIAL_CLOTH
    /\ "sheenColor" \in DOMAIN instances[MATERIAL_CLOTH]
    /\ "metallic" \in DOMAIN instances[MATERIAL_LIT]
    /\ "sheenColor" \notin DOMAIN instances[MATERIAL_LIT]

====
